---- MODULE Spec2Model ----
(***************************************************************************)
(* A model of the boomerang HTTP clients: the retry loop of HttpClient.Do  *)
(* (both revisions kept in http_client.go), the breaker-wrapped            *)
(* HystrixClient.Do, the default retry policy and the backoff strategies.  *)
(***************************************************************************)
EXTENDS Integers, Sequences, FiniteSets, TLC

\* ------------------------------------------------------------------ bounds

\* Largest retry budget (MaxRetries) a client is configured with.
MaxBudget == 3

\* Length of a request body, in bytes.
BodyLen == 2

\* Largest response status the retry policy is applied to on its own.
MaxStatus == 600

\* ------------------------------------------------------------------ values

\* The calls (goroutines) that may run Do on one shared client.
Calls == {"c1", "c2"}

\* Go's error values: nil, the transport's error, the error a custom retry
\* policy returns, and the two errors Do synthesizes.
NoErr == [kind |-> "nil"]

TransportErr == [kind |-> "transport"]

OverrideErr == [kind |-> "override"]

\* fmt.Errorf("failed to seek body: %v", err)
SeekErr == [kind |-> "failed to seek body"]

\* The error the circuit breaker hands to the fallback when it vetoes a run.
CircuitErr == [kind |-> "circuit open"]

\* fmt.Errorf("%s %s giving up after %d attempts", req.Method, req.URL, n)
GiveUpErr(method, url, n) ==
    [kind |-> "giving up", method |-> method, url |-> url, attempts |-> n]

\* *http.Response: nil, or a response with its status and its body's state.
NilResp == [nil |-> TRUE]

Response(status) == [nil |-> FALSE, StatusCode |-> status, Body |-> "open"]

\* The statuses a server answers with in the runs of Do.
Statuses == {0, 200, 404, 502}

\* What one call of http.Client.Do may return: a response and a nil error, or
\* no response and the transport's error.
Outcomes ==
    {[resp |-> Response(s), err |-> NoErr] : s \in Statuses}
        \cup {[resp |-> NilResp, err |-> TransportErr]}

\* Servers with two behaviours each: one that answers 200 or 502, one that
\* answers 404 or fails at the transport, one that answers 0 or 200.
Servers ==
    {{o \in Outcomes : o.err = NoErr /\ o.resp.StatusCode \in {200, 502}},
     {o \in Outcomes : o.err # NoErr \/ o.resp.StatusCode = 404},
     {o \in Outcomes : o.err = NoErr /\ o.resp.StatusCode \in {0, 200}}}

\* What Do has returned: nothing yet, or (resp, err).
NoRet == [returned |-> FALSE]

Ret(r, e) == [returned |-> TRUE, resp |-> r, err |-> e]

\* ------------------------------------------------------------------ retry policy

\* A policy that takes 500 itself for a final answer.
DefaultRetryPolicyAbove500(r, e) ==
    IF e # NoErr
        THEN <<TRUE, e>>
        ELSE IF r.StatusCode = 0 \/ r.StatusCode > 500
            THEN <<TRUE, NoErr>>
            ELSE <<FALSE, NoErr>>

\* DefaultRetryPolicy(resp, err) (bool, error)
DefaultRetryPolicy(r, e) ==
    IF e # NoErr
        THEN <<TRUE, e>>
        ELSE IF r.StatusCode = 0 \/ r.StatusCode >= 500
            THEN <<TRUE, NoErr>>
            ELSE <<FALSE, NoErr>>

\* The (shouldRetry, error) pairs the client's CheckRetry may return for an
\* outcome: the default policy's answer, or any answer of a caller-supplied
\* policy.
PolicyDecisions(policy, r, e) ==
    IF policy = "DefaultRetryPolicy"
        THEN {DefaultRetryPolicy(r, e)}
        ELSE BOOLEAN \X {NoErr, OverrideErr}

\* ------------------------------------------------------------------ backoff

\* Durations are whole numbers of a tick (time.Duration counts nanoseconds;
\* the strategies of the tests are taken with the millisecond as the tick); a
\* float64 factor is a fraction num/den, and float arithmetic is carried out
\* exactly on fractions.

\* Largest retry index NextInterval is applied to on its own.
MaxRetryCount == 10

\* rand.Float64() yields rnd/RandDen for rnd in 0..RandDen-1: a value of [0, 1).
RandDen == 4

RECURSIVE Pow(_, _)
\* math.Pow for a whole base and a whole, non-negative exponent.
Pow(b, n) == IF n <= 0 THEN 1 ELSE b * Pow(b, n - 1)

MinOf(a, b) == IF a <= b THEN a ELSE b

\* time.Duration(f) for the float f = num/den, den > 0: the fraction is dropped.
Trunc(num, den) == IF num >= 0 THEN num \div den ELSE -((-num) \div den)

\* constantBackoff.NextInterval, were the timeout scaled by the retry index.
ConstantNextIntervalScaled(b, retryCount) ==
    IF retryCount <= 0 THEN 0 ELSE b.timeout * retryCount

\* constantBackoff.NextInterval
ConstantNextInterval(b, retryCount) ==
    IF retryCount <= 0 THEN 0 ELSE b.timeout

\* exponentialBackoff.NextInterval without math.Min.
ExponentialNextIntervalUnclamped(b, retryCount) ==
    IF retryCount <= 0
        THEN 0
        ELSE Trunc(Pow(b.factor.num, retryCount) * b.minTimeout,
                   Pow(b.factor.den, retryCount))

\* exponentialBackoff.NextInterval
ExponentialNextInterval(b, retryCount) ==
    IF retryCount <= 0
        THEN 0
        ELSE LET efacNum == Pow(b.factor.num, retryCount) * b.minTimeout
                 efacDen == Pow(b.factor.den, retryCount)
                 \* math.Min(efac, float64(e.maxTimeout)), over efacDen
                 sleepNum == MinOf(efacNum, b.maxTimeout * efacDen)
             IN Trunc(sleepNum, efacDen)

\* jitterBackoff.NextInterval, were the bounds applied to every retry index.
JitterNextIntervalAlwaysBounded(b, retryCount, rnd) ==
    IF b.minTimeout <= b.maxTimeout THEN b.minTimeout ELSE b.maxTimeout

\* jitterBackoff.NextInterval, were the upper end of the draw returned as it is.
JitterNextIntervalUpperEnd(b, retryCount, rnd) ==
    IF retryCount <= 0
        THEN 0
        ELSE Trunc(b.minTimeout * Pow(b.factor.num, retryCount),
                   Pow(b.factor.den, retryCount))

\* jitterBackoff.NextInterval, rand.Float64() having yielded rnd/RandDen.
JitterNextInterval(b, retryCount, rnd) ==
    IF retryCount <= 0
        THEN 0
        ELSE LET powNum == Pow(b.factor.num, retryCount)
                 powDen == Pow(b.factor.den, retryCount)
                 \* durf = rnd/RandDen * (minf*pow - minf) + minf
                 durNum == rnd * (b.minTimeout * powNum - b.minTimeout * powDen)
                               + b.minTimeout * RandDen * powDen
                 durDen == RandDen * powDen
                 dur == Trunc(durNum, durDen)
             IN IF dur < b.minTimeout
                    THEN b.minTimeout
                    ELSE IF dur > b.maxTimeout THEN b.maxTimeout ELSE dur

\* Backoff.NextInterval, dispatched on the strategy the client holds.
NextInterval(b, retryCount) ==
    IF b.kind = "constant"
        THEN ConstantNextInterval(b, retryCount)
        ELSE ExponentialNextInterval(b, retryCount)

\* The strategies a client is given (durations in milliseconds).
Backoffs ==
    {[kind |-> "constant", timeout |-> 10],
     [kind |-> "exponential", minTimeout |-> 2, maxTimeout |-> 10,
      factor |-> [num |-> 2, den |-> 1]]}

\* ------------------------------------------------------------------ state

VARIABLES
    MaxRetries,     \* HttpClient.MaxRetries / HystrixClient.MaxRetries
    CheckRetry,     \* the client's retry policy
    Backoff,        \* the client's backoff strategy
    fallbackFunc,   \* HystrixClient.fallbackFunc
    client,         \* the client's *http.Client: the outcomes its transport yields
    req,            \* per call: the request (method, URL, body and its offset)
    pc,             \* per call: where the call is in Do
    i,              \* per call: Do's loop variable
    resp,           \* per call: Do's resp
    err,            \* per call: Do's err
    ret,            \* per call: what Do returned
    trace,          \* per call: what the call did, in order
    arg,            \* the input of a function applied on its own
    out             \* and its result

vars ==
    <<MaxRetries, CheckRetry, Backoff, fallbackFunc, client, req, pc, i, resp,
      err, ret, trace, arg, out>>

cfgVars == <<MaxRetries, CheckRetry, Backoff, fallbackFunc, client>>

pureVars == <<arg, out>>

\* ------------------------------------------------------------------ requests

NoBody == [present |-> FALSE, pos |-> 0]

\* NewRequest: Get passes no body; a body handed in by the caller may already
\* have been read up to any offset.
Requests(p) ==
    {[Method |-> "GET", URL |-> p, body |-> NoBody]}
        \cup {[Method |-> "PUT", URL |-> p, body |-> [present |-> TRUE, pos |-> n]] :
                n \in 0..BodyLen}

\* The offset a transport attempt starts reading the body at (-1: no body).
BodyOffset(r) == IF r.body.present THEN r.body.pos ELSE -1

\* The offsets the body may be left at by a transport attempt.
ReadTo(r) == IF r.body.present THEN r.body.pos..BodyLen ELSE {0}

Event(p, e) == [trace EXCEPT ![p] = Append(@, e)]

Events(p, es) == [trace EXCEPT ![p] = @ \o es]

\* ------------------------------------------------------------------ start

\* A client as constructed and configured by its owner, talking to one of
\* `servers`, and the calls in `active` about to run Do, each on a request of
\* its own, entering Do at `begin`.
InitClient(active, servers, begin) ==
    /\ MaxRetries \in 0..MaxBudget
    /\ CheckRetry \in {"DefaultRetryPolicy", "custom"}
    /\ Backoff \in Backoffs
    /\ fallbackFunc = "nil"
    /\ client \in servers
    /\ req \in {r \in [Calls -> UNION {Requests(p) : p \in Calls}] :
                  \A p \in Calls :
                      /\ r[p] \in Requests(p)
                      /\ p \notin active => r[p].body = NoBody}
    /\ pc = [p \in Calls |-> IF p \in active THEN begin ELSE "idle"]
    /\ i = [p \in Calls |-> 0]
    /\ resp = [p \in Calls |-> NilResp]
    /\ err = [p \in Calls |-> NoErr]
    /\ ret = [p \in Calls |-> NoRet]
    /\ trace = [p \in Calls |-> <<>>]
    /\ arg = NoRet
    /\ out = NoRet

\* ------------------------------------------------------------------ HttpClient.Do

\* A loop variable kept on the client, one for all calls.
SlotOnClient(p) == "c1"

\* The slot that holds call p's loop variable: `i` is a local of Do.
Slot(p) == p

\* A loop that runs on whatever the budget of the client.
LoopCondIgnoresBudget(n, max) == n <= MaxBudget

\* A loop that runs once more than the budget.
LoopCondInclusive(n, max) == n <= max

\* for i := 0; i < c.MaxRetries; i++
LoopCond(n, max) == n < max

\* A Do that does not look at Seek's error.
SeekErrorIgnored(ok) == FALSE

\* if _, err := req.body.Seek(0, 0); err != nil
SeekFailed(ok) == ~ok

\* A Do that leaves the body where the last attempt left it.
SeekBodySkipped(body) == body

\* req.body.Seek(0, 0), when it succeeds
SeekBody(body) == [body EXCEPT !.pos = 0]

\* A Do that goes on whatever the policy says.
StopsLoopNever(checkOK) == FALSE

\* if !checkOK { ... return resp, err }
StopsLoop(checkOK) == ~checkOK

\* A Do that drops the policy's error.
ReturnErrOfTransport(checkErr, e) == e

\* if checkErr != nil { err = checkErr }
ReturnErr(checkErr, e) == IF checkErr # NoErr THEN checkErr ELSE e

\* c.drainBody(resp.Body), were the body read and not closed.
drainBodyLeftOpen(r) == r

\* c.drainBody(resp.Body): the body is read (errors are only logged) and closed.
drainBody(r) == [r EXCEPT !.Body = "closed"]

\* The count the breaker-wrapped client states.
GiveUpCountPlusOne(max) == max + 1

\* The attempt count the exhaustion error of HttpClient.Do states.
GiveUpCount(max) == max

\* req.Close = true, and the loop variable's initialisation.
DoBegin(p) ==
    /\ pc[p] = "begin"
    /\ i' = [i EXCEPT ![Slot(p)] = 0]
    /\ pc' = [pc EXCEPT ![p] = "loop"]
    /\ UNCHANGED <<cfgVars, req, resp, err, ret, trace, pureVars>>

\* The loop's condition: another iteration, or out of the loop.
DoLoop(p) ==
    /\ pc[p] = "loop"
    /\ pc' = [pc EXCEPT ![p] =
                IF LoopCond(i[Slot(p)], MaxRetries) THEN "seek" ELSE "giveup"]
    /\ UNCHANGED <<cfgVars, req, i, resp, err, ret, trace, pureVars>>

\* Always rewind the request body when non-nil.
DoSeek(p) ==
    /\ pc[p] = "seek"
    /\ IF ~req[p].body.present
         THEN /\ pc' = [pc EXCEPT ![p] = "attempt"]
              /\ UNCHANGED <<req, ret, trace>>
         ELSE \E ok \in BOOLEAN :
                IF SeekFailed(ok)
                  THEN /\ ret' = [ret EXCEPT ![p] = Ret(NilResp, SeekErr)]
                       /\ pc' = [pc EXCEPT ![p] = "done"]
                       /\ trace' = Events(p, <<[ev |-> "seek", ok |-> ok],
                                               [ev |-> "return"]>>)
                       /\ UNCHANGED req
                  ELSE /\ req' = [req EXCEPT ![p].body =
                                    IF ok THEN SeekBody(@) ELSE @]
                       /\ pc' = [pc EXCEPT ![p] = "attempt"]
                       /\ trace' = Event(p, [ev |-> "seek", ok |-> ok])
                       /\ UNCHANGED ret
    /\ UNCHANGED <<cfgVars, i, resp, err, pureVars>>

\* resp, err := c.client.Do(req.Request): the transport reads the body from
\* its current offset, as far as it gets, and answers.
DoAttempt(p) ==
    /\ pc[p] = "attempt"
    /\ \E o \in client, n \in ReadTo(req[p]) :
        /\ resp' = [resp EXCEPT ![p] = o.resp]
        /\ err' = [err EXCEPT ![p] = o.err]
        /\ req' = [req EXCEPT ![p].body.pos = n]
        /\ trace' = Event(p, [ev |-> "attempt", pos |-> BodyOffset(req[p]),
                              out |-> o])
    /\ pc' = [pc EXCEPT ![p] = "check"]
    /\ UNCHANGED <<cfgVars, i, ret, pureVars>>

\* checkOK, checkErr := c.CheckRetry(resp, err), then the return or the drain.
DoCheck(p) ==
    /\ pc[p] = "check"
    /\ \E d \in PolicyDecisions(CheckRetry, resp[p], err[p]) :
        IF StopsLoop(d[1])
          THEN /\ ret' = [ret EXCEPT ![p] = Ret(resp[p], ReturnErr(d[2], err[p]))]
               /\ pc' = [pc EXCEPT ![p] = "done"]
               /\ trace' = Events(p, <<[ev |-> "check", retry |-> d[1],
                                        checkErr |-> d[2]],
                                       [ev |-> "return"]>>)
               /\ UNCHANGED resp
          ELSE /\ resp' = [resp EXCEPT ![p] =
                            IF err[p] = NoErr THEN drainBody(@) ELSE @]
               /\ pc' = [pc EXCEPT ![p] = "sleep"]
               /\ trace' = Events(p, <<[ev |-> "check", retry |-> d[1]]>>
                                \o IF err[p] = NoErr
                                     THEN <<[ev |-> "drain"]>> ELSE <<>>)
               /\ UNCHANGED ret
    /\ UNCHANGED <<cfgVars, req, i, err, pureVars>>

\* waitTime := c.Backoff.NextInterval(i); time.Sleep(waitTime); i++
DoSleep(p) ==
    /\ pc[p] = "sleep"
    /\ trace' = Event(p, [ev |-> "sleep", i |-> i[Slot(p)],
                          d |-> NextInterval(Backoff, i[Slot(p)])])
    /\ i' = [i EXCEPT ![Slot(p)] = @ + 1]
    /\ pc' = [pc EXCEPT ![p] = "loop"]
    /\ UNCHANGED <<cfgVars, req, resp, err, ret, pureVars>>

\* Return an error if we fall out of the retry loop.
DoGiveUp(p) ==
    /\ pc[p] = "giveup"
    /\ ret' = [ret EXCEPT ![p] =
                 Ret(NilResp, GiveUpErr(req[p].Method, req[p].URL,
                                        GiveUpCount(MaxRetries)))]
    /\ pc' = [pc EXCEPT ![p] = "done"]
    /\ trace' = Event(p, [ev |-> "return"])
    /\ UNCHANGED <<cfgVars, req, i, resp, err, pureVars>>

RECURSIVE DoAlone(_, _, _, _)
\* HttpClient.Do run from its loop variable n to its end by one call alone:
\* what it does (acc, so far) and returns, given what its environment answers
\* in turn (ins: the results of Seek, of the transport and of the policy), for
\* as long as there are answers.
DoAlone(p, n, ins, acc) ==
    LET r == req[p]
        return == [ev |-> "return"]
    IN IF ~LoopCond(n, MaxRetries)
         THEN [trace |-> Append(acc, return),
               ret |-> Ret(NilResp, GiveUpErr(r.Method, r.URL, GiveUpCount(MaxRetries)))]
       ELSE IF ins = <<>>
         THEN [trace |-> acc, ret |-> NoRet]
       ELSE IF r.body.present /\ SeekFailed(Head(ins).ok)
         THEN [trace |-> acc \o <<Head(ins), return>>, ret |-> Ret(NilResp, SeekErr)]
       ELSE
         LET rest == IF r.body.present THEN Tail(ins) ELSE ins
             seek == IF r.body.present THEN <<Head(ins)>> ELSE <<>>
         IN IF rest = <<>>
              THEN [trace |-> acc \o seek, ret |-> NoRet]
            ELSE
              LET o == Head(rest).out
                  attempt == [ev |-> "attempt",
                              pos |-> IF r.body.present THEN 0 ELSE -1, out |-> o]
              IN IF Len(rest) = 1
                   THEN [trace |-> acc \o seek \o <<attempt>>, ret |-> NoRet]
                 ELSE IF StopsLoop(rest[2].retry)
                   THEN [trace |-> acc \o seek \o <<attempt, rest[2], return>>,
                         ret |-> Ret(o.resp, ReturnErr(rest[2].checkErr, o.err))]
                 ELSE DoAlone(p, n + 1, SubSeq(rest, 3, Len(rest)),
                              acc \o seek \o <<attempt, rest[2]>>
                                  \o (IF o.err = NoErr THEN <<[ev |-> "drain"]>> ELSE <<>>)
                                  \o <<[ev |-> "sleep", i |-> n,
                                        d |-> NextInterval(Backoff, n)]>>)

\* One call of HttpClient.Do on a client nobody else is using.
Init == InitClient({"c1"}, {Outcomes}, "begin")

Next ==
    \/ DoBegin("c1")
    \/ DoLoop("c1")
    \/ DoSeek("c1")
    \/ DoAttempt("c1")
    \/ DoCheck("c1")
    \/ DoSleep("c1")
    \/ DoGiveUp("c1")

Spec == Init /\ [][Next]_vars

\* Two calls of HttpClient.Do at once on one shared client.
InitConc ==
    /\ InitClient(Calls, Servers, "begin")
    /\ MaxRetries < MaxBudget
    /\ \A p \in Calls : req[p].body.pos = 0

NextConc ==
    \E p \in Calls :
        \/ DoBegin(p)
        \/ DoLoop(p)
        \/ DoSeek(p)
        \/ DoAttempt(p)
        \/ DoCheck(p)
        \/ DoSleep(p)
        \/ DoGiveUp(p)

SpecConc == InitConc /\ [][NextConc]_vars

\* ------------------------------------------------------------------ bodies that fail to be read

\* A response whose body gives an error when it is read: io.Copy in drainBody
\* returns that error.
UnreadableResponse(status) == [Response(status) EXCEPT !.Body = "unreadable"]

\* What the transport may return when a response's body may fail to be read.
OutcomesOfDrains ==
    Outcomes \cup {[resp |-> UnreadableResponse(s), err |-> NoErr] : s \in Statuses}

\* One call of HttpClient.Do against a server whose bodies may fail to be read.
InitDrain == InitClient({"c1"}, {OutcomesOfDrains}, "begin")

SpecDrain == InitDrain /\ [][Next]_vars

\* ------------------------------------------------------------------ a call that keeps running

\* One call of HttpClient.Do whose goroutine is scheduled for as long as it
\* has a step to take: c.client.Do returns, time.Sleep returns.
SpecTermination == Init /\ [][Next]_vars /\ WF_vars(Next)

\* ------------------------------------------------------------------ the setters

\* Most calls of SetRetries and SetBackoff made while a call of Do is under way.
MaxSetCalls == 2

\* A call of Do by "c1" is under way.
InFlight == pc["c1"] \notin {"idle", "begin", "done"}

\* func (c *HttpClient) SetRetries(retry int) { c.MaxRetries = retry }, called
\* by another goroutine while Do runs: a plain write of the field Do reads.
SetRetries(retry) ==
    /\ InFlight
    /\ Len(trace["c2"]) < MaxSetCalls
    /\ retry # MaxRetries
    /\ MaxRetries' = retry
    /\ trace' = Event("c2", [ev |-> "SetRetries", old |-> MaxRetries, new |-> retry])
    /\ UNCHANGED <<CheckRetry, Backoff, fallbackFunc, client, req, pc, i, resp,
                   err, ret, pureVars>>

\* func (c *HttpClient) SetBackoff(bc Backoff) { c.Backoff = bc }, likewise.
SetBackoff(bc) ==
    /\ InFlight
    /\ Len(trace["c2"]) < MaxSetCalls
    /\ bc # Backoff
    /\ Backoff' = bc
    /\ trace' = Event("c2", [ev |-> "SetBackoff", old |-> Backoff, new |-> bc])
    /\ UNCHANGED <<MaxRetries, CheckRetry, fallbackFunc, client, req, pc, i, resp,
                   err, ret, pureVars>>

\* One call of HttpClient.Do while the client's owner reconfigures it.
NextSetters ==
    \/ Next
    \/ \E retry \in 0..MaxBudget : SetRetries(retry)
    \/ \E bc \in Backoffs : SetBackoff(bc)

SpecSetters == Init /\ [][NextSetters]_vars

\* ------------------------------------------------------------------ HttpClient.Do, second revision

\* for i := c.MaxRetries; i > 0; i--
LoopCond2(n) == n > 0

\* req.Close = true, and the loop variable's initialisation.
Do2Begin(p) ==
    /\ pc[p] = "v2:begin"
    /\ i' = [i EXCEPT ![p] = MaxRetries]
    /\ pc' = [pc EXCEPT ![p] = "v2:loop"]
    /\ UNCHANGED <<cfgVars, req, resp, err, ret, trace, pureVars>>

\* The loop's condition: another iteration, or out of the loop.
Do2Loop(p) ==
    /\ pc[p] = "v2:loop"
    /\ pc' = [pc EXCEPT ![p] = IF LoopCond2(i[p]) THEN "v2:attempt" ELSE "v2:giveup"]
    /\ UNCHANGED <<cfgVars, req, i, resp, err, ret, trace, pureVars>>

\* resp, err := c.client.Do(req): this revision takes an *http.Request and
\* never rewinds its body.
Do2Attempt(p) ==
    /\ pc[p] = "v2:attempt"
    /\ \E o \in client, n \in ReadTo(req[p]) :
        /\ resp' = [resp EXCEPT ![p] = o.resp]
        /\ err' = [err EXCEPT ![p] = o.err]
        /\ req' = [req EXCEPT ![p].body.pos = n]
        /\ trace' = Event(p, [ev |-> "attempt", pos |-> BodyOffset(req[p]),
                              out |-> o])
    /\ pc' = [pc EXCEPT ![p] = "v2:check"]
    /\ UNCHANGED <<cfgVars, i, ret, pureVars>>

\* checkOK, checkErr := c.CheckRetry(resp, err), then the return or the drain.
Do2Check(p) ==
    /\ pc[p] = "v2:check"
    /\ \E d \in PolicyDecisions(CheckRetry, resp[p], err[p]) :
        IF StopsLoop(d[1])
          THEN /\ ret' = [ret EXCEPT ![p] = Ret(resp[p], ReturnErr(d[2], err[p]))]
               /\ pc' = [pc EXCEPT ![p] = "done"]
               /\ trace' = Events(p, <<[ev |-> "check", retry |-> d[1],
                                        checkErr |-> d[2]],
                                       [ev |-> "return"]>>)
               /\ UNCHANGED resp
          ELSE /\ resp' = [resp EXCEPT ![p] =
                            IF err[p] = NoErr THEN drainBody(@) ELSE @]
               /\ pc' = [pc EXCEPT ![p] = "v2:sleep"]
               /\ trace' = Events(p, <<[ev |-> "check", retry |-> d[1]]>>
                                \o IF err[p] = NoErr
                                     THEN <<[ev |-> "drain"]>> ELSE <<>>)
               /\ UNCHANGED ret
    /\ UNCHANGED <<cfgVars, req, i, err, pureVars>>

\* waitTime := c.Backoff.NextInterval(i); time.Sleep(waitTime); i--
Do2Sleep(p) ==
    /\ pc[p] = "v2:sleep"
    /\ trace' = Event(p, [ev |-> "sleep", i |-> i[p],
                          d |-> NextInterval(Backoff, i[p])])
    /\ i' = [i EXCEPT ![p] = @ - 1]
    /\ pc' = [pc EXCEPT ![p] = "v2:loop"]
    /\ UNCHANGED <<cfgVars, req, resp, err, ret, pureVars>>

\* Return an error if we fall out of the retry loop.
Do2GiveUp(p) ==
    /\ pc[p] = "v2:giveup"
    /\ ret' = [ret EXCEPT ![p] =
                 Ret(NilResp, GiveUpErr(req[p].Method, req[p].URL, MaxRetries))]
    /\ pc' = [pc EXCEPT ![p] = "done"]
    /\ trace' = Event(p, [ev |-> "return"])
    /\ UNCHANGED <<cfgVars, req, i, resp, err, pureVars>>

NextV2 ==
    \/ Do2Begin("c1")
    \/ Do2Loop("c1")
    \/ Do2Attempt("c1")
    \/ Do2Check("c1")
    \/ Do2Sleep("c1")
    \/ Do2GiveUp("c1")

\* One call of HttpClient.Do, in either revision of http_client.go.
InitRevisions ==
    \E begin \in {"begin", "v2:begin"} : InitClient({"c1"}, {Outcomes}, begin)

NextRevisions == Next \/ NextV2

SpecRevisions == InitRevisions /\ [][NextRevisions]_vars

\* ------------------------------------------------------------------ HystrixClient.Do

\* The fallbacks a caller may set: none, one that hands the error on, one
\* that swallows it.
Fallbacks == {"nil", "passes", "swallows"}

\* What hystrix.Do returns for an error e of the run (or of the breaker).
Fallback(f, e) == IF f = "swallows" THEN NoErr ELSE e

\* The error the closure handed to hystrix.Do returns, given the attempt's
\* error and the policy's answer.
ClosureResult(checkOK, checkErr, e) ==
    IF ~checkOK
        THEN IF checkErr # NoErr THEN checkErr ELSE e
        ELSE NoErr

\* The breaker's record of a run: a run that returns an error is a failure.
BreakerSignal(r) == IF r # NoErr THEN "failure" ELSE "success"

\* A loop that runs once more than the budget.
HystrixLoopCondInclusive(n, max) == n <= max

\* for i := 0; i < c.MaxRetries; i++
HystrixLoopCond(n, max) == n < max

\* The attempt count the exhaustion error of HystrixClient.Do states.
HystrixGiveUpCount(max) == max + 1

\* var resp *http.Response; var err error; and the loop variable.
HystrixBegin(p) ==
    /\ pc[p] = "h:begin"
    /\ resp' = [resp EXCEPT ![p] = NilResp]
    /\ err' = [err EXCEPT ![p] = NoErr]
    /\ i' = [i EXCEPT ![p] = 0]
    /\ pc' = [pc EXCEPT ![p] = "h:loop"]
    /\ UNCHANGED <<cfgVars, req, ret, trace, pureVars>>

\* The loop's condition: another iteration, or out of the loop.
HystrixLoop(p) ==
    /\ pc[p] = "h:loop"
    /\ pc' = [pc EXCEPT ![p] =
                IF HystrixLoopCond(i[p], MaxRetries) THEN "h:execute" ELSE "h:giveup"]
    /\ UNCHANGED <<cfgVars, req, i, resp, err, ret, trace, pureVars>>

\* err = hystrix.Do(c.commandName, func() error {...}, c.fallbackFunc): the
\* breaker runs the closure (one transport attempt and the policy's answer),
\* or vetoes the run and hands its own error to the fallback.
HystrixExecute(p) ==
    /\ pc[p] = "h:execute"
    /\ \/ \E o \in client, n \in ReadTo(req[p]) :
            \E d \in PolicyDecisions(CheckRetry, o.resp, o.err) :
                LET r == ClosureResult(d[1], d[2], o.err)
                    e == IF r = NoErr THEN NoErr ELSE Fallback(fallbackFunc, r)
                IN /\ resp' = [resp EXCEPT ![p] = o.resp]
                   /\ err' = [err EXCEPT ![p] = e]
                   /\ req' = [req EXCEPT ![p].body.pos = n]
                   /\ trace' = Event(p, [ev |-> "execute", ran |-> TRUE,
                                         pos |-> BodyOffset(req[p]), out |-> o,
                                         retry |-> d[1],
                                         signal |-> BreakerSignal(r), err |-> e])
       \/ /\ err' = [err EXCEPT ![p] = Fallback(fallbackFunc, CircuitErr)]
          /\ trace' = Event(p, [ev |-> "execute", ran |-> FALSE,
                                err |-> Fallback(fallbackFunc, CircuitErr)])
          /\ UNCHANGED <<resp, req>>
    /\ pc' = [pc EXCEPT ![p] = "h:after"]
    /\ UNCHANGED <<cfgVars, i, ret, pureVars>>

\* if err != nil { ... continue }; if err == nil { c.drainBody(resp.Body);
\* return resp, err }: reading the Body of a nil response panics.
HystrixAfter(p) ==
    /\ pc[p] = "h:after"
    /\ IF err[p] # NoErr
         THEN /\ pc' = [pc EXCEPT ![p] = "h:sleep"]
              /\ UNCHANGED <<resp, ret, trace>>
         ELSE IF resp[p] = NilResp
           THEN /\ pc' = [pc EXCEPT ![p] = "panic"]
                /\ trace' = Event(p, [ev |-> "panic"])
                /\ UNCHANGED <<resp, ret>>
           ELSE /\ resp' = [resp EXCEPT ![p] = drainBody(@)]
                /\ ret' = [ret EXCEPT ![p] = Ret(drainBody(resp[p]), err[p])]
                /\ pc' = [pc EXCEPT ![p] = "done"]
                /\ trace' = Events(p, <<[ev |-> "drain"], [ev |-> "return"]>>)
    /\ UNCHANGED <<cfgVars, req, i, err, pureVars>>

\* waitTime := c.Backoff.NextInterval(i); time.Sleep(waitTime); continue
HystrixSleep(p) ==
    /\ pc[p] = "h:sleep"
    /\ trace' = Event(p, [ev |-> "sleep", i |-> i[p],
                          d |-> NextInterval(Backoff, i[p])])
    /\ i' = [i EXCEPT ![p] = @ + 1]
    /\ pc' = [pc EXCEPT ![p] = "h:loop"]
    /\ UNCHANGED <<cfgVars, req, resp, err, ret, pureVars>>

\* Return an error if we fall out of the retry loop.
HystrixGiveUp(p) ==
    /\ pc[p] = "h:giveup"
    /\ ret' = [ret EXCEPT ![p] =
                 Ret(NilResp, GiveUpErr(req[p].Method, req[p].URL,
                                        HystrixGiveUpCount(MaxRetries)))]
    /\ pc' = [pc EXCEPT ![p] = "done"]
    /\ trace' = Event(p, [ev |-> "return"])
    /\ UNCHANGED <<cfgVars, req, i, resp, err, pureVars>>

\* One call of HystrixClient.Do, with any fallback set.
InitHystrix ==
    /\ fallbackFunc \in Fallbacks
    /\ MaxRetries \in 0..MaxBudget
    /\ CheckRetry \in {"DefaultRetryPolicy", "custom"}
    /\ Backoff \in Backoffs
    /\ client = Outcomes
    /\ req \in {r \in [Calls -> UNION {Requests(p) : p \in Calls}] :
                  /\ r["c1"] \in Requests("c1")
                  /\ r["c2"] = [Method |-> "GET", URL |-> "c2", body |-> NoBody]}
    /\ pc = [p \in Calls |-> IF p = "c1" THEN "h:begin" ELSE "idle"]
    /\ i = [p \in Calls |-> 0]
    /\ resp = [p \in Calls |-> NilResp]
    /\ err = [p \in Calls |-> NoErr]
    /\ ret = [p \in Calls |-> NoRet]
    /\ trace = [p \in Calls |-> <<>>]
    /\ arg = NoRet
    /\ out = NoRet

NextHystrix ==
    \/ HystrixBegin("c1")
    \/ HystrixLoop("c1")
    \/ HystrixExecute("c1")
    \/ HystrixAfter("c1")
    \/ HystrixSleep("c1")
    \/ HystrixGiveUp("c1")

SpecHystrix == InitHystrix /\ [][NextHystrix]_vars

\* ------------------------------------------------------------------ the policy on its own

\* No call of Do is under way.
NoCalls ==
    /\ MaxRetries = 0
    /\ CheckRetry = "DefaultRetryPolicy"
    /\ Backoff \in {b \in Backoffs : b.kind = "constant"}
    /\ fallbackFunc = "nil"
    /\ client = {}
    /\ req = [p \in Calls |-> [Method |-> "GET", URL |-> p, body |-> NoBody]]
    /\ pc = [p \in Calls |-> "idle"]
    /\ i = [p \in Calls |-> 0]
    /\ resp = [p \in Calls |-> NilResp]
    /\ err = [p \in Calls |-> NoErr]
    /\ ret = [p \in Calls |-> NoRet]
    /\ trace = [p \in Calls |-> <<>>]

doVars == <<cfgVars, req, pc, i, resp, err, ret, trace>>

\* The (resp, err) pairs a retry policy is called with: every status up to
\* MaxStatus, with or without an error, and the transport's (nil, err).
PolicyInputs ==
    {[resp |-> Response(s), err |-> e] : s \in 0..MaxStatus, e \in {NoErr, TransportErr}}
        \cup {[resp |-> NilResp, err |-> TransportErr]}

InitPolicy ==
    /\ NoCalls
    /\ arg \in PolicyInputs
    /\ out = NoRet

\* checkOK, checkErr := DefaultRetryPolicy(resp, err)
CallDefaultRetryPolicy ==
    /\ out = NoRet
    /\ LET d == DefaultRetryPolicy(arg.resp, arg.err)
       IN out' = [returned |-> TRUE, checkOK |-> d[1], checkErr |-> d[2]]
    /\ UNCHANGED <<doVars, arg>>

NextPolicy == CallDefaultRetryPolicy

SpecPolicy == InitPolicy /\ [][NextPolicy]_vars

\* ------------------------------------------------------------------ the backoff strategies on their own

\* The timeouts and factors a strategy is constructed with.
Timeouts == {1, 2, 3, 10, 50}

Factors ==
    {[num |-> 1, den |-> 2], [num |-> 1, den |-> 1],
     [num |-> 3, den |-> 2], [num |-> 2, den |-> 1]}

\* NewConstantBackoff, NewExponentialBackoff and NewJitterBackoff: they store
\* what they are given, unchecked.
Strategies ==
    {[kind |-> "constant", timeout |-> t] : t \in Timeouts}
        \cup {[kind |-> k, minTimeout |-> lo, maxTimeout |-> hi, factor |-> f] :
                k \in {"exponential", "jitter"}, lo \in Timeouts, hi \in Timeouts,
                f \in Factors}

InitBackoff ==
    /\ NoCalls
    /\ arg \in [b : Strategies, n : (-2)..MaxRetryCount]
    /\ out = NoRet

CallConstantNextInterval ==
    /\ out = NoRet
    /\ arg.b.kind = "constant"
    /\ out' = [returned |-> TRUE, d |-> ConstantNextInterval(arg.b, arg.n)]
    /\ UNCHANGED <<doVars, arg>>

CallExponentialNextInterval ==
    /\ out = NoRet
    /\ arg.b.kind = "exponential"
    /\ out' = [returned |-> TRUE, d |-> ExponentialNextInterval(arg.b, arg.n)]
    /\ UNCHANGED <<doVars, arg>>

CallJitterNextInterval ==
    /\ out = NoRet
    /\ arg.b.kind = "jitter"
    /\ \E rnd \in 0..(RandDen - 1) :
          out' = [returned |-> TRUE, rnd |-> rnd,
                  d |-> JitterNextInterval(arg.b, arg.n, rnd)]
    /\ UNCHANGED <<doVars, arg>>

NextBackoff ==
    \/ CallConstantNextInterval
    \/ CallExponentialNextInterval
    \/ CallJitterNextInterval

SpecBackoff == InitBackoff /\ [][NextBackoff]_vars

\* ------------------------------------------------------------------ claims

\* C2: DefaultRetryPolicy asks for a retry exactly when the transport gave an
\* error, or the status is 0, or the status is 500 or more; every status in
\* 1..499 gives (false, nil); the error it returns is the transport's error
\* when there is one and nil otherwise.
C2_DefaultPolicy ==
    out.returned =>
        /\ out.checkOK <=>
             (arg.err # NoErr \/ arg.resp.StatusCode = 0 \/ arg.resp.StatusCode >= 500)
        /\ (arg.err = NoErr /\ arg.resp.StatusCode \in 1..499)
             => (out.checkOK = FALSE /\ out.checkErr = NoErr)
        /\ out.checkErr = arg.err

C2_Witness ==
    /\ out.returned
    /\ arg.err = NoErr
    /\ arg.resp.StatusCode = 500
    /\ out.checkOK

\* What the trace of a call tells.
EventsOf(p, kind) == {k \in 1..Len(trace[p]) : trace[p][k].ev = kind}

Attempts(p) == Cardinality(EventsOf(p, "attempt"))

Sleeps(p) == Cardinality(EventsOf(p, "sleep"))

\* The policy's decisions that ended the loop / asked for another attempt.
FinalChecks(p) == {k \in EventsOf(p, "check") : ~trace[p][k].retry}

AllRetryable(p) == FinalChecks(p) = {}

SeekFailures(p) == {k \in EventsOf(p, "seek") : ~trace[p][k].ok}

\* The call ends with its k-th event followed by the return alone.
EndsAfter(p, k) ==
    /\ Len(trace[p]) = k + 1
    /\ trace[p][k + 1].ev = "return"
    /\ pc[p] = "done"
    /\ ret[p].returned

\* C1, as stated: the first attempt the policy marks non-retryable ends the
\* call, and its response is returned with a nil error, whatever the policy.
C1_Original ==
    \A k \in FinalChecks("c1") :
        /\ EndsAfter("c1", k)
        /\ ret["c1"].resp = trace["c1"][k - 1].out.resp
        /\ ret["c1"].err = NoErr

\* C1, amended: the first attempt the policy marks non-retryable ends the
\* call: the check is followed by the return alone (no sleep, no further
\* attempt), the attempt's response is returned, undrained, and the error is
\* nil under DefaultRetryPolicy; a 200 or a 404 on the first attempt under
\* DefaultRetryPolicy gives exactly one attempt and no sleep.
C1_NonRetryableEndsCall ==
    /\ \A k \in FinalChecks("c1") :
        /\ EndsAfter("c1", k)
        /\ trace["c1"][k - 1].ev = "attempt"
        /\ ret["c1"].resp = trace["c1"][k - 1].out.resp
        /\ CheckRetry = "DefaultRetryPolicy" => ret["c1"].err = NoErr
    /\ (/\ CheckRetry = "DefaultRetryPolicy"
        /\ Attempts("c1") >= 1
        /\ LET first == CHOOSE k \in EventsOf("c1", "attempt") :
                            \A j \in EventsOf("c1", "attempt") : k <= j
           IN /\ trace["c1"][first].out.err = NoErr
              /\ trace["c1"][first].out.resp.StatusCode \in {200, 404})
            => (Attempts("c1") = 1 /\ Sleeps("c1") = 0)

\* A 404 that follows a retried attempt is handed to the caller.
C1_Witness ==
    /\ CheckRetry = "DefaultRetryPolicy"
    /\ pc["c1"] = "done"
    /\ Attempts("c1") = 2
    /\ Sleeps("c1") = 1
    /\ ret["c1"] = Ret(Response(404), NoErr)

\* C3: when every attempt of a call with MaxRetries >= 1 is retryable (and no
\* rewind of the body fails), Do returns no response and the "giving up"
\* error, which names the request's method and URL and states as many
\* attempts as the call made; and the exhaustion error never comes with a
\* response or another count.
C3_GivingUp ==
    /\ (/\ pc["c1"] = "done"
        /\ MaxRetries >= 1
        /\ AllRetryable("c1")
        /\ SeekFailures("c1") = {})
          => ret["c1"] = Ret(NilResp,
                             GiveUpErr(req["c1"].Method, req["c1"].URL, Attempts("c1")))
    /\ (ret["c1"].returned /\ ret["c1"].err.kind = "giving up")
          => /\ ret["c1"].resp = NilResp
             /\ ret["c1"].err.method = req["c1"].Method
             /\ ret["c1"].err.url = req["c1"].URL
             /\ ret["c1"].err.attempts = Attempts("c1")

C3_Witness ==
    /\ pc["c1"] = "done"
    /\ MaxRetries = MaxBudget
    /\ Attempts("c1") = MaxBudget
    /\ \A k \in EventsOf("c1", "attempt") :
         trace["c1"][k].out = [resp |-> Response(502), err |-> NoErr]
    /\ ret["c1"] = Ret(NilResp, GiveUpErr("PUT", "c1", MaxBudget))

\* C4: every transport attempt of a request with a body, the first and each
\* retry, starts reading the body at offset 0.
C4_BodyRewound ==
    \A k \in EventsOf("c1", "attempt") :
        req["c1"].body.present => trace["c1"][k].pos = 0

\* A second attempt was issued after the first had read the whole body.
C4_Witness ==
    /\ req["c1"].body.present
    /\ Attempts("c1") = 2
    /\ pc["c1"] = "check"
    /\ req["c1"].body.pos = BodyLen
    /\ trace["c1"][Len(trace["c1"])].pos = 0

\* C5: a failed rewind of the body ends the call at once: nothing follows it
\* in the call but the return of (nil, "failed to seek body"), an error that
\* is not the exhaustion error, whatever budget remains.
C5_SeekFailureAborts ==
    \A k \in SeekFailures("c1") :
        /\ EndsAfter("c1", k)
        /\ ret["c1"] = Ret(NilResp, SeekErr)
        /\ ret["c1"].err.kind # "giving up"

\* The rewind failed before the second attempt, with budget left.
C5_Witness ==
    /\ SeekFailures("c1") # {}
    /\ Attempts("c1") = 1
    /\ i["c1"] + 1 < MaxRetries
    /\ pc["c1"] = "done"

C9_OverrideError ==
    \A k \in FinalChecks("c1") :
        LET attempt == trace["c1"][k - 1]
            checkErr == trace["c1"][k].checkErr
        IN /\ ret["c1"].returned
           /\ ret["c1"].resp = attempt.out.resp
           /\ checkErr # NoErr => ret["c1"].err = checkErr
           /\ checkErr = NoErr => ret["c1"].err = attempt.out.err

\* A 200 that the policy turns into its own error.
C9_Witness ==
    /\ ret["c1"] = Ret(Response(200), OverrideErr)
    /\ FinalChecks("c1") # {}

\* What the environment answered to a call, in order.
Inputs(p) == SelectSeq(trace[p], LAMBDA e : e.ev \in {"seek", "attempt", "check"})

IsPrefix(s1, s2) == Len(s1) <= Len(s2) /\ SubSeq(s2, 1, Len(s1)) = s1

\* C10: under every interleaving of two calls of Do on one client, what each
\* call does (its rewinds, transport attempts, drains and sleeps, in order)
\* and returns is what Do run alone does and returns on the same answers of
\* the transport and the policy.
C10_CallsDoNotInterfere ==
    \A p \in Calls :
        LET alone == DoAlone(p, 0, Inputs(p), <<>>)
        IN /\ IsPrefix(trace[p], alone.trace)
           /\ pc[p] = "done" => (trace[p] = alone.trace /\ ret[p] = alone.ret)

\* Both calls are part-way through Do, at different attempts, on requests of
\* their own.
C10_Witness ==
    /\ pc["c1"] = "sleep"
    /\ Attempts("c1") = 2
    /\ pc["c2"] = "check"
    /\ Attempts("c2") = 1
    /\ req["c1"] # req["c2"]

\* C7: a call of HystrixClient.Do never runs the breaker more than MaxRetries
\* times, and a call in which every run of the breaker returns an error runs
\* it exactly MaxRetries times and returns (nil, exhaustion error).
C7_HystrixAttempts ==
    /\ Cardinality(EventsOf("c1", "execute")) <= MaxRetries
    /\ (/\ pc["c1"] = "done"
        /\ \A k \in EventsOf("c1", "execute") : trace["c1"][k].err # NoErr)
          => /\ Cardinality(EventsOf("c1", "execute")) = MaxRetries
             /\ ret["c1"].resp = NilResp
             /\ ret["c1"].err.kind = "giving up"

C7_Witness ==
    /\ pc["c1"] = "done"
    /\ MaxRetries = MaxBudget
    /\ Cardinality(EventsOf("c1", "execute")) = MaxBudget
    /\ \A k \in EventsOf("c1", "execute") :
         trace["c1"][k].ran /\ trace["c1"][k].err # NoErr
    /\ ret["c1"].err.kind = "giving up"

\* C8: in HystrixClient.Do an attempt whose outcome the policy marks
\* retryable is signalled to the breaker as a failure, is followed by the
\* backoff wait (hystrix.Do returned an error), and is never handed to the
\* caller as a successful result.
C8_RetryableIsFailure ==
    \A k \in EventsOf("c1", "execute") :
        (trace["c1"][k].ran /\ trace["c1"][k].retry)
            => /\ trace["c1"][k].signal = "failure"
               /\ trace["c1"][k].err # NoErr
               /\ ~(/\ ret["c1"].returned
                    /\ ret["c1"].err = NoErr
                    /\ \A j \in EventsOf("c1", "execute") : j <= k)

\* The budget and the backoff strategy the client held when the call began.
MaxRetriesAtStart ==
    LET sets == EventsOf("c2", "SetRetries")
    IN IF sets = {} THEN MaxRetries
       ELSE trace["c2"][CHOOSE k \in sets : \A j \in sets : k <= j].old

BackoffAtStart ==
    LET sets == EventsOf("c2", "SetBackoff")
    IN IF sets = {} THEN Backoff
       ELSE trace["c2"][CHOOSE k \in sets : \A j \in sets : k <= j].old

\* C11: a call of Do runs under the configuration the client had when the
\* call began: SetRetries or SetBackoff called meanwhile changes neither the
\* number of its attempts (never more than that budget, exactly that budget
\* when every attempt is retryable) nor its waits.
C11_ConfigurationFixedPerCall ==
    /\ Attempts("c1") <= MaxRetriesAtStart
    /\ (pc["c1"] = "done" /\ AllRetryable("c1") /\ SeekFailures("c1") = {})
          => Attempts("c1") = MaxRetriesAtStart
    /\ \A k \in EventsOf("c1", "sleep") :
          trace["c1"][k].d = NextInterval(BackoffAtStart, trace["c1"][k].i)

\* C12: for every retry index n <= 0, zero and the negatives, NextInterval(n)
\* is the zero duration under each of the three strategies, whatever the
\* timeouts and the factor.
C12_ZeroForNonPositiveIndex ==
    (out.returned /\ arg.n <= 0) => out.d = 0

C12_Witness ==
    /\ out.returned
    /\ arg.n < 0
    /\ arg.b.kind = "jitter"
    /\ arg.b.minTimeout = 10
    /\ out.d = 0

\* The powers of the factor's two parts at the retry index applied.
PowNum == Pow(arg.b.factor.num, arg.n)

PowDen == Pow(arg.b.factor.den, arg.n)

\* C13: for every n >= 1 the exponential NextInterval(n) is
\* min(maxTimeout, minTimeout * factor^n) as a duration, that is its whole
\* number of ticks; hence it never exceeds maxTimeout, and with min = 2,
\* max = 10, factor = 2 it is 4 at n = 1 and the clamped 10 at n = 4.
C13_ExponentialIsClampedPower ==
    (out.returned /\ arg.b.kind = "exponential" /\ arg.n >= 1) =>
        LET exact == MinOf(arg.b.maxTimeout * PowDen, arg.b.minTimeout * PowNum)
        IN /\ out.d * PowDen <= exact
           /\ exact < (out.d + 1) * PowDen
           /\ out.d <= arg.b.maxTimeout
           /\ (arg.b.minTimeout = 2 /\ arg.b.maxTimeout = 10 /\ arg.b.factor = [num |-> 2, den |-> 1])
                => /\ arg.n = 1 => out.d = 4
                   /\ arg.n = 4 => out.d = 10

C13_Witness ==
    /\ out.returned
    /\ arg.b = [kind |-> "exponential", minTimeout |-> 2, maxTimeout |-> 10,
                factor |-> [num |-> 2, den |-> 1]]
    /\ arg.n = 4
    /\ out.d = 10

\* C14 as the specification states it: for every n >= 1 and every draw of
\* the random source the jittered NextInterval(n) lies in
\* [minTimeout, maxTimeout] and does not exceed minTimeout * factor^n.
C14_Original ==
    (out.returned /\ arg.b.kind = "jitter" /\ arg.n >= 1
        /\ arg.b.minTimeout <= arg.b.maxTimeout) =>
        /\ arg.b.minTimeout <= out.d
        /\ out.d <= arg.b.maxTimeout
        /\ out.d * PowDen <= arg.b.minTimeout * PowNum

\* C14: for every n >= 1, every draw of the random source and
\* minTimeout <= maxTimeout, the jittered NextInterval(n) lies in
\* [minTimeout, maxTimeout]; it does not exceed minTimeout * factor^n when
\* the factor is at least 1, and is minTimeout when the factor is below 1.
C14_JitterWithinBounds ==
    (out.returned /\ arg.b.kind = "jitter" /\ arg.n >= 1
        /\ arg.b.minTimeout <= arg.b.maxTimeout) =>
        /\ arg.b.minTimeout <= out.d
        /\ out.d <= arg.b.maxTimeout
        /\ arg.b.factor.num >= arg.b.factor.den
              => out.d * PowDen <= arg.b.minTimeout * PowNum
        /\ arg.b.factor.num < arg.b.factor.den => out.d = arg.b.minTimeout
        /\ (arg.b.minTimeout = 10 /\ arg.b.factor = [num |-> 2, den |-> 1] /\ arg.n = 1)
              => out.d \in 10..20

C14_Witness ==
    /\ out.returned
    /\ arg.b = [kind |-> "jitter", minTimeout |-> 10, maxTimeout |-> 50,
                factor |-> [num |-> 2, den |-> 1]]
    /\ arg.n = 1
    /\ out.rnd = RandDen - 1
    /\ out.d > 10
    /\ out.d < 20

\* C15: for the jittered backoff, when minTimeout * factor^n exceeds
\* maxTimeout (as with min = 2, max = 10, factor = 2, n = 10), NextInterval(n)
\* is exactly maxTimeout for every draw of the random source.
C15_JitterClampedToMaxTimeout ==
    (out.returned /\ arg.b.kind = "jitter" /\ arg.n >= 1
        /\ arg.b.minTimeout <= arg.b.maxTimeout
        /\ arg.b.minTimeout * PowNum > arg.b.maxTimeout * PowDen) =>
        out.d = arg.b.maxTimeout

\* C16: for every n >= 1 the constant NextInterval(n) is the configured
\* timeout, whatever n.
C16_ConstantIsTimeout ==
    (out.returned /\ arg.b.kind = "constant" /\ arg.n >= 1) => out.d = arg.b.timeout

C16_Witness ==
    /\ out.returned
    /\ arg.b = [kind |-> "constant", timeout |-> 10]
    /\ arg.n = MaxRetryCount
    /\ out.d = 10

\* The transport attempts of a call of HystrixClient.Do, in order.
Executions(p) == {k \in EventsOf(p, "execute") : trace[p][k].ran}

\* C17: in HystrixClient.Do, for a request with a body, every attempt after
\* the first is issued with the body's read position at 0.
C17_HystrixBodyRewound ==
    \A k \in Executions("c1") :
        (req["c1"].body.present /\ \E j \in Executions("c1") : j < k)
            => trace["c1"][k].pos = 0

\* The number of backoff sleeps of a call before the event at k: the counter
\* value, counted from 0, of the attempt the sleep at k follows.
AttemptCounter(p, k) == Cardinality({j \in EventsOf(p, "sleep") : j < k})

\* C18: in every Do of the repository the wait slept after the attempt whose
\* counter value is k (0 for the first attempt, one more per attempt) is
\* Backoff.NextInterval(k); so the waits of one call never decrease under
\* constant or exponential backoff.
C18_WaitIsNextIntervalOfCounter ==
    \A k \in EventsOf("c1", "sleep") :
        /\ trace["c1"][k].d = NextInterval(Backoff, AttemptCounter("c1", k))
        /\ \A j \in EventsOf("c1", "sleep") :
              j < k => trace["c1"][j].d <= trace["c1"][k].d

\* The backoff sleeps of a call that last: time.Sleep of a positive duration.
Suspensions(p) == {k \in EventsOf(p, "sleep") : trace[p][k].d > 0}

\* C19: in HttpClient.Do a call suspends only between attempts: every backoff
\* sleep is followed by another transport attempt, and when the last attempt
\* the budget allows is retryable the call returns the exhaustion error
\* without sleeping first.
C19_SuspendsOnlyBetweenAttempts ==
    (pc["c1"] = "done" /\ SeekFailures("c1") = {}) =>
        /\ \A k \in Suspensions("c1") : \E j \in EventsOf("c1", "attempt") : j > k
        /\ (ret["c1"].err.kind = "giving up" /\ Len(trace["c1"]) > 1)
              => (Len(trace["c1"]) - 1) \notin Suspensions("c1")

\* The drains of a call whose read of the body gave an error.
FailedDrains(p) ==
    {k \in EventsOf(p, "drain") : trace[p][k - 2].out.resp.Body = "unreadable"}

\* C20: in HttpClient.Do, when an attempt gave a response and no transport
\* error and the policy asks for a retry, the response's body is drained and
\* closed before the backoff sleep and before the next attempt; a read error
\* during the drain changes neither what the call does next nor what it
\* returns; and a response returned to the caller is returned as the
\* transport gave it, neither drained nor closed.
C20_DrainBeforeSleep ==
    LET t == trace["c1"]
    IN /\ \A k \in EventsOf("c1", "check") :
             (t[k].retry /\ t[k - 1].out.err = NoErr) =>
                 /\ k + 1 <= Len(t) /\ t[k + 1].ev = "drain"
                 /\ k + 2 <= Len(t) => t[k + 2].ev = "sleep"
       /\ \A k \in EventsOf("c1", "drain") :
             /\ t[k - 1].ev = "check" /\ t[k - 1].retry
             /\ t[k - 2].ev = "attempt" /\ t[k - 2].out.err = NoErr
       /\ \A k \in EventsOf("c1", "sleep") :
             t[k - 1].ev = "drain" \/ t[k - 2].out.err # NoErr
       /\ (pc["c1"] = "sleep" /\ err["c1"] = NoErr) => resp["c1"].Body = "closed"
       /\ (pc["c1"] = "done" /\ SeekFailures("c1") = {}) =>
             IF AllRetryable("c1")
               THEN ret["c1"] = Ret(NilResp, GiveUpErr(req["c1"].Method, req["c1"].URL,
                                                       MaxRetries))
               ELSE /\ ret["c1"].resp = t[Len(t) - 2].out.resp
                    /\ ret["c1"].resp.nil \/ ret["c1"].resp.Body # "closed"
                    /\ t[Len(t) - 1].ev = "check"

C20_Witness ==
    /\ pc["c1"] = "done"
    /\ FailedDrains("c1") # {}
    /\ \E k \in FailedDrains("c1") :
          /\ trace["c1"][k + 1].ev = "sleep"
          /\ trace["c1"][k + 1].d > 0
          /\ \E j \in EventsOf("c1", "attempt") : j > k
    /\ ret["c1"].resp = Response(200)
    /\ ret["c1"].err = NoErr

\* The ways a call of HttpClient.Do has ended: an outcome returned, the
\* exhaustion error, the failed rewind.
EndedDone(p) == FinalChecks(p) # {}

EndedGivingUp(p) == ret[p].returned /\ ret[p].err.kind = "giving up"

EndedSeekAbort(p) == SeekFailures(p) # {}

TerminalStates(p) ==
    {k \in {"Done", "GivingUp", "SeekAbort"} :
        \/ k = "Done" /\ EndedDone(p)
        \/ k = "GivingUp" /\ EndedGivingUp(p)
        \/ k = "SeekAbort" /\ EndedSeekAbort(p)}

\* C21: every call of HttpClient.Do whose transport calls and sleeps return
\* ends, in exactly one of Done, GivingUp and the seek-failure abort, after
\* no more transport attempts than the budget; once it has ended it makes no
\* further attempt and sleeps no more.
C21_DoTerminates ==
    /\ <>(pc["c1"] = "done")
    /\ [](Attempts("c1") <= MaxRetries)
    /\ [](pc["c1"] = "done" =>
            (ret["c1"].returned /\ Cardinality(TerminalStates("c1")) = 1))
    /\ [][pc["c1"] = "done" => UNCHANGED <<trace, pc, ret>>]_vars

C21_Witness ==
    /\ pc["c1"] = "done"
    /\ MaxRetries = MaxBudget
    /\ Attempts("c1") = MaxRetries
    /\ Sleeps("c1") = MaxRetries
    /\ TerminalStates("c1") = {"GivingUp"}
    /\ req["c1"].body.present

\* C22: when HystrixClient.Do gives up, the attempt count its exhaustion
\* error names is the number of attempts the call made (each run of
\* hystrix.Do counted as one, whether or not the breaker let it through).
C22_HystrixCountIsAttemptsMade ==
    (pc["c1"] = "done" /\ ret["c1"].err.kind = "giving up") =>
        ret["c1"].err.attempts = Cardinality(EventsOf("c1", "execute"))

\* C23: for every MaxRetries >= 0 a call of HttpClient.Do makes at least one
\* transport attempt before it returns (a failed rewind of the body aside),
\* and the exhaustion error is returned only after an attempt whose outcome
\* was retryable.
C23_AtLeastOneAttempt ==
    (pc["c1"] = "done" /\ SeekFailures("c1") = {}) =>
        /\ Attempts("c1") >= 1
        /\ ret["c1"].err.kind = "giving up"
              => \E k \in EventsOf("c1", "check") : trace["c1"][k].retry

\* C24: in HystrixClient.Do the drain-and-return path is taken only with a
\* response: an attempt that ended in a transport error, with no response,
\* never leads to reading the body of the absent response, but to a backoff
\* sleep or to an error returned to the caller.
C24_HystrixNeverReadsNilResponse ==
    /\ pc["c1"] # "panic"
    /\ \A k \in Executions("c1") :
          (trace["c1"][k].out.resp = NilResp /\ k < Len(trace["c1"]))
              => \/ trace["c1"][k + 1].ev = "sleep"
                 \/ /\ trace["c1"][k + 1].ev = "return"
                    /\ ret["c1"].err # NoErr

\* C25: a response HystrixClient.Do returns to the caller with a nil error
\* has not had its body drained or closed by the client: only a response
\* given up for a retry is drained.
C25_HystrixReturnsUndrainedResponse ==
    /\ (pc["c1"] = "done" /\ ret["c1"].err = NoErr /\ ~ret["c1"].resp.nil)
          => ret["c1"].resp.Body = "open"
    /\ \A k \in EventsOf("c1", "drain") :
          k < Len(trace["c1"]) => trace["c1"][k + 1].ev # "return"

====
